---- MODULE Spec2Model ----
(***************************************************************************)
(* system/types/bt_transport.h: the three transport constants, the type    *)
(* tBT_TRANSPORT and the inline formatter bt_transport_text.                *)
(*                                                                         *)
(* Strings are TLA+ strings (TLC evaluates \o, Len and SubSeq on them).    *)
(* An optional value is a sequence of length 0 (absent) or 1 (present).    *)
(* Each caller thread owns one tBT_TRANSPORT object, passes it by          *)
(* reference, and receives the returned std::string.  The body of the      *)
(* function is executed one evaluation at a time, so that calls of         *)
(* different threads interleave, and the operands of the default branch's  *)
(* expression are evaluated in any order the language allows.              *)
(***************************************************************************)
EXTENDS Integers, Sequences, FiniteSets, TLC

VARIABLES value, before, pc, frame, result, memo

vars == <<value, before, pc, frame, result, memo>>

(* ------------------------------ bounds -------------------------------- *)

\* Number of caller threads of the concurrent specification.
NumThreads == 2

\* The single caller of the sequential specification.
SeqThreads == {1}

ConcThreads == 1..NumThreads

(* ----------------------- constants and the type ----------------------- *)

BT_TRANSPORT_AUTO == 0

BT_TRANSPORT_BR_EDR == 1

\* A copy-paste slip in the third #define.
BT_TRANSPORT_LE_Dup == BT_TRANSPORT_BR_EDR

BT_TRANSPORT_LE == 2

\* Largest value of uint8_t.
UINT8_MAX == 255

\* typedef uint8_t tBT_TRANSPORT
tBT_TRANSPORT == 0..UINT8_MAX

\* The codes the threads of the concurrent specification draw from: the three
\* constants, the first unrecognized code, a two-digit and the largest code.
ConcCodes == {BT_TRANSPORT_AUTO, BT_TRANSPORT_BR_EDR, BT_TRANSPORT_LE, 3, 10, UINT8_MAX}

(* ---------------------------- preprocessor ---------------------------- *)

\* Macro replacement of an identifier token (its spelling) by its #define.
Expand(tok) ==
  CASE tok = "BT_TRANSPORT_AUTO" -> BT_TRANSPORT_AUTO
    [] tok = "BT_TRANSPORT_BR_EDR" -> BT_TRANSPORT_BR_EDR
    [] tok = "BT_TRANSPORT_LE" -> BT_TRANSPORT_LE

\* One decimal digit as text.
Digit(d) == SubSeq("0123456789", d + 1, d + 1)

\* Stringification after macro replacement of the argument (what a two-level
\* STR(x) helper would give): the numeric expansion.
StringifyExpanded(tok) == Digit(Expand(tok))

\* The # operator: its operand is not macro-replaced, the result is the
\* spelling of the argument token.
Stringify(tok) == tok

\* #define CASE_RETURN_TEXT(code) case code: return #code
\* In "case code:" the argument is macro-replaced, in "#code" it is not.
CASE_RETURN_TEXT(code) == [label |-> Expand(code), text |-> Stringify(code)]

\* A copied case branch whose text was not changed: codes 1 and 2 both
\* return the name of the second constant.
SwitchCases_CopiedText ==
  << CASE_RETURN_TEXT("BT_TRANSPORT_AUTO"),
     CASE_RETURN_TEXT("BT_TRANSPORT_BR_EDR"),
     [label |-> BT_TRANSPORT_LE, text |-> Stringify("BT_TRANSPORT_BR_EDR")] >>

\* The switch without its third case.
SwitchCases_NoLE ==
  << CASE_RETURN_TEXT("BT_TRANSPORT_AUTO"),
     CASE_RETURN_TEXT("BT_TRANSPORT_BR_EDR") >>

\* The case branches of the switch, in source order.
SwitchCases ==
  << CASE_RETURN_TEXT("BT_TRANSPORT_AUTO"),
     CASE_RETURN_TEXT("BT_TRANSPORT_BR_EDR"),
     CASE_RETURN_TEXT("BT_TRANSPORT_LE") >>

(* ---------------------------- std::to_string --------------------------- *)

\* A conversion with a fixed width of three (as "%03d" would print).
to_string_Padded(v) ==
  Digit((v \div 100) % 10) \o Digit((v \div 10) % 10) \o Digit(v % 10)

\* std::to_string(int) of the promoted uint8_t: the decimal digits, most
\* significant first, no sign for a non-negative value.
RECURSIVE to_string(_)
to_string(v) ==
  IF v < 10 THEN Digit(v) ELSE to_string(v \div 10) \o Digit(v % 10)

(* ------------------------------- state -------------------------------- *)

\* No temporaries are alive.
NoFrame == [lhs |-> <<>>, num |-> <<>>, rhs |-> <<>>, cat |-> <<>>]

\* The function reads one shared object (the first thread's, while it is
\* alive) instead of the referent of its own parameter.
transport_Shared(t) == IF value[1] # <<>> THEN value[1][1] ELSE value[t][1]

\* const tBT_TRANSPORT& transport: a read through the reference yields the
\* caller's object.
transport(t) == value[t][1]

\* Initially no thread has called: no caller holds a transport object or a
\* label, no temporaries are alive and no call has completed.
InitOf(T) ==
  /\ value = [t \in T |-> <<>>]
  /\ before = [t \in T |-> <<>>]
  /\ pc = [t \in T |-> "caller"]
  /\ frame = [t \in T |-> NoFrame]
  /\ result = [t \in T |-> <<>>]
  /\ memo = <<>>

\* The caller creates its transport object with code c and calls
\* bt_transport_text on it; before keeps the code as it was passed.
Call(t, c) ==
  /\ pc[t] = "caller"
  /\ value' = [value EXCEPT ![t] = <<c>>]
  /\ before' = [before EXCEPT ![t] = <<c>>]
  /\ pc' = [pc EXCEPT ![t] = "switch"]
  /\ frame' = [frame EXCEPT ![t] = NoFrame]
  /\ result' = [result EXCEPT ![t] = <<>>]
  /\ UNCHANGED memo

\* A return of a pointer into storage that dies with the call: the caller
\* reads either the text or what the reused storage holds by then.
Return_Dangling(t, text) ==
  /\ \E got \in {text, ""} : result' = [result EXCEPT ![t] = <<got>>]
  /\ frame' = [frame EXCEPT ![t] = NoFrame]
  /\ pc' = [pc EXCEPT ![t] = "returned"]
  /\ UNCHANGED <<value, before, memo>>

\* A return statement: the temporaries die, the caller receives the string.
Return(t, text) ==
  /\ result' = [result EXCEPT ![t] = <<text>>]
  /\ frame' = [frame EXCEPT ![t] = NoFrame]
  /\ pc' = [pc EXCEPT ![t] = "returned"]
  /\ UNCHANGED <<value, before, memo>>

\* The caller is done with the label: its transport object and the returned
\* string go out of scope.  memo keeps one completed call of the past (any
\* one: with keep, the call that ends here replaces it), so that a later call
\* can be compared with an earlier one.
EndScope(t, keep) ==
  /\ pc[t] = "returned"
  /\ value' = [value EXCEPT ![t] = <<>>]
  /\ before' = [before EXCEPT ![t] = <<>>]
  /\ result' = [result EXCEPT ![t] = <<>>]
  /\ pc' = [pc EXCEPT ![t] = "caller"]
  /\ memo' = IF keep /\ result[t] # <<>>
               THEN <<[code |-> before[t][1], label |-> result[t][1]]>>
               ELSE memo
  /\ UNCHANGED frame

\* switch (transport): a case label equals the value; return its text.
SwitchCase(t) ==
  /\ pc[t] = "switch"
  /\ \E i \in 1..Len(SwitchCases) :
       /\ SwitchCases[i].label = transport(t)
       /\ Return(t, SwitchCases[i].text)

\* A switch with no default label: control leaves the function with no
\* return statement executed, and the caller receives no label.
SwitchDefault_Missing(t) ==
  /\ pc[t] = "switch"
  /\ \A i \in 1..Len(SwitchCases) : SwitchCases[i].label # transport(t)
  /\ pc' = [pc EXCEPT ![t] = "returned"]
  /\ UNCHANGED <<value, before, frame, result, memo>>

\* switch (transport): no case label equals the value; control goes to default.
SwitchDefault(t) ==
  /\ pc[t] = "switch"
  /\ \A i \in 1..Len(SwitchCases) : SwitchCases[i].label # transport(t)
  /\ pc' = [pc EXCEPT ![t] = "default"]
  /\ UNCHANGED <<value, before, frame, result, memo>>

\* std::string("UNKNOWN[")
EvalPrefix(t) ==
  /\ pc[t] = "default"
  /\ frame[t].lhs = <<>>
  /\ frame' = [frame EXCEPT ![t].lhs = <<"UNKNOWN[">>]
  /\ UNCHANGED <<value, before, pc, result, memo>>

\* A conversion that divides the referent itself down to zero while it
\* extracts the digits.
EvalToString_InPlace(t) ==
  /\ pc[t] = "default"
  /\ frame[t].num = <<>>
  /\ frame' = [frame EXCEPT ![t].num = <<to_string(transport(t))>>]
  /\ value' = [value EXCEPT ![t] = <<0>>]
  /\ UNCHANGED <<before, pc, result, memo>>

\* std::to_string(transport)
EvalToString(t) ==
  /\ pc[t] = "default"
  /\ frame[t].num = <<>>
  /\ frame' = [frame EXCEPT ![t].num = <<to_string(transport(t))>>]
  /\ UNCHANGED <<value, before, pc, result, memo>>

\* std::string("]")
EvalSuffix(t) ==
  /\ pc[t] = "default"
  /\ frame[t].rhs = <<>>
  /\ frame' = [frame EXCEPT ![t].rhs = <<"]">>]
  /\ UNCHANGED <<value, before, pc, result, memo>>

\* The inner operator+: std::string("UNKNOWN[") + std::to_string(transport)
ConcatInner(t) ==
  /\ pc[t] = "default"
  /\ frame[t].lhs # <<>>
  /\ frame[t].num # <<>>
  /\ frame[t].cat = <<>>
  /\ frame' = [frame EXCEPT ![t].cat = <<frame[t].lhs[1] \o frame[t].num[1]>>]
  /\ UNCHANGED <<value, before, pc, result, memo>>

\* The outer operator+ and the return: (...) + std::string("]")
ConcatOuter(t) ==
  /\ pc[t] = "default"
  /\ frame[t].cat # <<>>
  /\ frame[t].rhs # <<>>
  /\ Return(t, frame[t].cat[1] \o frame[t].rhs[1])

\* One evaluation step of thread t inside bt_transport_text.  The operands
\* of an operator+ are evaluated in no specified order.
bt_transport_text(t) ==
  \/ SwitchCase(t)
  \/ SwitchDefault(t)
  \/ EvalPrefix(t)
  \/ EvalToString(t)
  \/ EvalSuffix(t)
  \/ ConcatInner(t)
  \/ ConcatOuter(t)

\* T: the caller threads, C: the codes they pass, K: whether calls of the
\* past are kept in memo ({FALSE}: never, BOOLEAN: any one of them).
NextOf(T, C, K) ==
  \/ \E t \in T : \E c \in C : Call(t, c)
  \/ \E t \in T : bt_transport_text(t)
  \/ \E t \in T : \E keep \in K : EndScope(t, keep)

Init == InitOf(SeqThreads)

\* One caller, every code of the type, no call of the past kept.
Next == NextOf(SeqThreads, tBT_TRANSPORT, {FALSE})

Spec == Init /\ [][Next]_vars

\* The caller's thread keeps running: a call that can take a step takes it.
SpecFair == Spec /\ \A t \in SeqThreads : WF_vars(bt_transport_text(t))

NextHist == NextOf(SeqThreads, tBT_TRANSPORT, BOOLEAN)

\* One caller, every code of the type, one call of the past kept in memo.
SpecHist == Init /\ [][NextHist]_vars

InitConc == InitOf(ConcThreads)

NextConc == NextOf(ConcThreads, ConcCodes, BOOLEAN)

\* NumThreads callers running concurrently, one call of the past kept.
SpecConc == InitConc /\ [][NextConc]_vars

(* ------------------- what the claims speak about --------------------- *)

\* The threads of the specification at hand.
Threads == DOMAIN pc

\* Thread t's call has returned and the caller holds what it received.
Returned(t) == pc[t] = "returned"

\* The code thread t passed to the call that is running or has returned.
Code(t) == before[t][1]

\* The label thread t received.
Label(t) == result[t][1]

\* The decimal numeral of a code of at most three digits, written out by the
\* number of digits: no sign, no leading zero, no padding.
Numeral(c) ==
  LET d == <<"0", "1", "2", "3", "4", "5", "6", "7", "8", "9">>
  IN  IF c >= 100 THEN d[(c \div 100) + 1] \o d[((c \div 10) % 10) + 1] \o d[(c % 10) + 1]
      ELSE IF c >= 10 THEN d[(c \div 10) + 1] \o d[(c % 10) + 1]
      ELSE d[c + 1]

\* The label the specification prescribes for code c.
Prescribed(c) ==
  CASE c = 0 -> "BT_TRANSPORT_AUTO"
    [] c = 1 -> "BT_TRANSPORT_BR_EDR"
    [] c = 2 -> "BT_TRANSPORT_LE"
    [] OTHER -> "UNKNOWN[" \o Numeral(c) \o "]"

\* Text s starts with text p.
StartsWith(s, p) == Len(s) >= Len(p) /\ SubSeq(s, 1, Len(p)) = p

\* C1: a call with code 0, 1 or 2 returns exactly the name of the constant,
\* "BT_TRANSPORT_AUTO", "BT_TRANSPORT_BR_EDR" or "BT_TRANSPORT_LE", not the
\* number the constant expands to.
C1_SymbolicNames ==
  \A t \in Threads :
    Returned(t) =>
      /\ Code(t) = 0 => result[t] = <<"BT_TRANSPORT_AUTO">>
      /\ Code(t) = 1 => result[t] = <<"BT_TRANSPORT_BR_EDR">>
      /\ Code(t) = 2 => result[t] = <<"BT_TRANSPORT_LE">>

C1_Witness ==
  Returned(1) /\ Code(1) = 2 /\ result[1] = <<"BT_TRANSPORT_LE">>

\* C2: a call with a code in 3..255 returns exactly "UNKNOWN[" followed by
\* the decimal numeral of the code (no leading zeros, no padding) followed by
\* "]"; 7 gives "UNKNOWN[7]" and 255 gives "UNKNOWN[255]".
C2_UnknownDecimal ==
  \A t \in Threads :
    Returned(t) /\ Code(t) \in 3..255 =>
      /\ result[t] = <<"UNKNOWN[" \o Numeral(Code(t)) \o "]">>
      /\ Code(t) = 7 => result[t] = <<"UNKNOWN[7]">>
      /\ Code(t) = 255 => result[t] = <<"UNKNOWN[255]">>

C2_Witness ==
  Returned(1) /\ Code(1) = 255 /\ result[1] = <<"UNKNOWN[255]">>

\* C3: the function is total over 0..255: a call that is under way can always
\* take a step (it never gets stuck and has no error outcome), every call that
\* starts returns, and what it returns is a label, a non-empty string.
C3_Total ==
  /\ [](\A t \in Threads :
          /\ pc[t] \in {"switch", "default"} => ENABLED bt_transport_text(t)
          /\ Returned(t) => Len(result[t]) = 1 /\ Len(Label(t)) > 0)
  /\ \A t \in SeqThreads : (pc[t] = "switch") ~> Returned(t)

C3_Witness ==
  Returned(1) /\ Code(1) = 200 /\ Len(Label(1)) = 12

\* C4: the function is deterministic: a call returns the same string as any
\* earlier call with the same code, however many calls with the same or other
\* codes happened before or between the two.
C4_Deterministic ==
  \A t \in Threads :
    Returned(t) /\ memo # <<>> /\ memo[1].code = Code(t) =>
      result[t] = <<memo[1].label>>

C4_Witness ==
  /\ Returned(1) /\ Code(1) = 255 /\ result[1] = <<"UNKNOWN[255]">>
  /\ memo = <<[code |-> 255, label |-> "UNKNOWN[255]"]>>

\* C5: a call leaves the caller's transport object as it was passed, while it
\* runs and after it has returned, and keeps nothing of its own: once it has
\* returned none of its temporaries is alive.
C5_ArgumentUntouched ==
  \A t \in Threads :
    /\ pc[t] # "caller" => value[t] = before[t]
    /\ Returned(t) => frame[t] = NoFrame

C5_Witness ==
  /\ Returned(1) /\ before[1] = <<255>> /\ value[1] = <<255>>
  /\ result[1] = <<"UNKNOWN[255]">> /\ frame[1] = NoFrame

\* C6: threads may call concurrently without coordination: under every
\* interleaving each thread receives the label prescribed for its own code,
\* and a step of one thread changes nothing that belongs to another thread.
C6_Concurrent ==
  /\ [](\A t \in Threads : Returned(t) => result[t] = <<Prescribed(Code(t))>>)
  /\ [][\E t \in Threads : \A u \in Threads \ {t} :
          /\ value'[u] = value[u]
          /\ pc'[u] = pc[u]
          /\ frame'[u] = frame[u]
          /\ result'[u] = result[u]]_vars

C6_Witness ==
  /\ Returned(1) /\ Code(1) = 255 /\ result[1] = <<"UNKNOWN[255]">>
  /\ pc[2] = "default" /\ Code(2) = 10 /\ frame[2].cat = <<"UNKNOWN[10">>
  /\ frame[2].rhs = <<>>

\* C7: the three constants are 0, 1 and 2, pairwise distinct, and each is a
\* value of the 8-bit unsigned transport type 0..255.
C7_Constants ==
  /\ BT_TRANSPORT_AUTO = 0
  /\ BT_TRANSPORT_BR_EDR = 1
  /\ BT_TRANSPORT_LE = 2
  /\ Cardinality({BT_TRANSPORT_AUTO, BT_TRANSPORT_BR_EDR, BT_TRANSPORT_LE}) = 3
  /\ tBT_TRANSPORT = 0..255
  /\ {BT_TRANSPORT_AUTO, BT_TRANSPORT_BR_EDR, BT_TRANSPORT_LE} \subseteq tBT_TRANSPORT
  /\ \A t \in Threads : value[t] # <<>> => value[t][1] \in 0..255

C7_Witness ==
  Returned(1) /\ value[1] = <<BT_TRANSPORT_LE>> /\ result[1] = <<"BT_TRANSPORT_LE">>

\* C8: the function is injective over 0..255: a call returns a label different
\* from the label of any earlier call with a different code, so a label
\* determines the code it came from.
C8_Injective ==
  \A t \in Threads :
    Returned(t) /\ memo # <<>> /\ memo[1].code # Code(t) =>
      Label(t) # memo[1].label

C8_Witness ==
  /\ Returned(1) /\ Code(1) = 125 /\ result[1] = <<"UNKNOWN[125]">>
  /\ memo = <<[code |-> 25, label |-> "UNKNOWN[25]"]>>

\* C9: the returned label starts with "UNKNOWN[" exactly when the code is not
\* 0, 1 or 2; a fallback label is none of the three symbolic names and a
\* recognized code never gets a fallback label.
C9_FallbackIffUnrecognized ==
  \A t \in Threads :
    Returned(t) =>
      /\ StartsWith(Label(t), "UNKNOWN[") <=> Code(t) \notin {0, 1, 2}
      /\ Code(t) \notin {0, 1, 2} =>
           Label(t) \notin {"BT_TRANSPORT_AUTO", "BT_TRANSPORT_BR_EDR", "BT_TRANSPORT_LE"}
      /\ Code(t) \in {0, 1, 2} =>
           Label(t) \in {"BT_TRANSPORT_AUTO", "BT_TRANSPORT_BR_EDR", "BT_TRANSPORT_LE"}

C9_Witness ==
  /\ Returned(1) /\ Code(1) = 3 /\ StartsWith(Label(1), "UNKNOWN[")

====
